---- MODULE Spec2Model ----
(***************************************************************************)
(* DHT22 single-wire sensor driver (src/dht22.c) and its callers.          *)
(*                                                                         *)
(* Conventions                                                             *)
(*  - uint32_t values are pairs <<hi, lo>> of 16-bit halves, so that the   *)
(*    millisecond counter keeps its 32-bit width and wraps modulo 2^32.    *)
(*  - float readings are kept in tenths (humidity 40.0 is 400): every      *)
(*    value the driver produces is an integer n times 0.1 rounded to       *)
(*    float, the rounding is monotonic in n, and the constants the code    *)
(*    compares against (100.0, -40.0, 80.0, 30.0) are themselves whole     *)
(*    tenths, so comparisons on tenths agree with the comparisons on       *)
(*    floats.  -0.0 (sign bit set, magnitude 0) is the tenths value 0.     *)
(***************************************************************************)
EXTENDS Integers, Sequences, FiniteSets, TLC

\* ------------------------------------------------------------------ bounds
MaxReads == 2
\* microseconds after which the clock of the polling model stops
MaxElapsed == 205
\* longest high pulse, in microseconds, of the bit-decoding model
MaxPulse == 210
\* longest time, in milliseconds, between a capture and the next read in
\* the pacing model
MaxGap == 2001
\* iterations of a caller's polling loop
MaxIter == 3
\* ms taken by the handshake and the 40 bits of a complete frame
CaptureMs == 5

\* ------------------------------------------------- return codes (dht22.h)
DHT22_OK == 0
DHT22_ERROR_CHECKSUM == -1
DHT22_ERROR_TIMEOUT == -2
DHT22_ERROR_INVALID_DATA == -3
DHT22_ERROR_NOT_INITIALIZED == -4

\* --------------------------------------------- timing constants (dht22.c)
DHT22_START_SIGNAL_DELAY == 18000
DHT22_RESPONSE_WAIT_TIMEOUT == 200
DHT22_BIT_THRESHOLD == 50
DHT22_MIN_INTERVAL_MS == 2000

\* -------------------------------------------------- 32-bit unsigned words
B16 == 2 ^ 16

U32(n) == <<(n \div B16) % B16, n % B16>>

Add32(a, n) ==
    LET s == a[2] + (n % B16)
    IN  <<(a[1] + (n \div B16) + (s \div B16)) % B16, s % B16>>

Sub32(a, b) ==
    LET d == a[2] - b[2]
        borrow == IF d < 0 THEN 1 ELSE 0
    IN  <<(a[1] - b[1] - borrow + 2 * B16) % B16, d + borrow * B16>>

Lt32(a, b) == a[1] < b[1] \/ (a[1] = b[1] /\ a[2] < b[2])

\* value of a word known to be below 2^31
Val32(a) == a[1] * B16 + a[2]

Zero32 == <<0, 0>>

Min(a, b) == IF a < b THEN a ELSE b

\* ------------------------------------------------------------- environment
\* GPIO numbers the callers pass to dht22_init
PinSet == {2, 4}

\* idle times of the caller between two driver calls, in ms
TickSet == {1, 1999, 2000}

\* duration of the start signal on the millisecond clock (18 ms + 30 us)
StartSignalMs == DHT22_START_SIGNAL_DELAY \div 1000

\* lead of RunUntilNearWrap: a read entered then stamps its capture at the
\* instant the counter wraps to 0
WrapLead == StartSignalMs + CaptureMs

\* microseconds from the entry of a wait to the loop's last reading of the
\* clock before it samples the line at the level polled for; Never is a
\* line that stays at the other level
Never == -1
EdgeDelays == {10, 80, 200, 201, Never}

\* length in microseconds of the high pulse the sensor sends for bit b
PulseFor(b) == IF b = 1 THEN {51, 70, 200, 201, Never} ELSE {28, 50, Never}

\* ------------------------------------------------------------------ frames
Sum4(d) == (d[1] + d[2] + d[3] + d[4]) % 256
Framed(b0, b1, b2, b3) == <<b0, b1, b2, b3, (b0 + b1 + b2 + b3) % 256>>

ZeroFrame == <<0, 0, 0, 0, 0>>
FrameExample == <<1, 144, 0, 200, 89>>
FrameNegBadSum == <<2, 140, 128, 50, 255>>
FrameNeg == <<2, 140, 128, 50, 64>>

FrameHumid1001 == Framed(3, 233, 0, 200)

\* humidity 100.1 % and a checksum that does not match
FrameBadSumHumid1001 == <<3, 233, 0, 200, 0>>

\* frames the sensor sends in the driver model
FrameSet ==
    {FrameExample, FrameNegBadSum, FrameNeg, FrameHumid1001,
     FrameBadSumHumid1001}

\* bit k (0 = least significant) of a byte
Bit(byte, k) == (byte \div (2 ^ k)) % 2

\* byte | (1 << k)
OrBit(byte, k) == IF Bit(byte, k) = 1 THEN byte ELSE byte + 2 ^ k

\* the i-th bit on the wire, most significant bit of byte 0 first
WireBit(frame, i) == Bit(frame[(i \div 8) + 1], 7 - (i % 8))

VARIABLES
    dht22_state,   \* [last_read_time_ms, pin, initialized]
    clock_ms,      \* to_ms_since_boot(get_absolute_time()), 32 bits
    temperature,   \* caller's result slot, tenths of a degree
    humidity,      \* caller's result slot, tenths of a percent
    pc,            \* position of the caller / of dht22_read
    result,        \* value returned by the last dht22_read
    data,          \* dht22_read's local frame buffer
    bit_i,         \* loop index of dht22_read_data
    phase,         \* number of handshake edges seen
    wire,          \* frame the sensor is transmitting in this read
    current_time,  \* dht22_read's local current_time
    events,        \* GPIO and sleep calls made by the current read
    samples,       \* number of edge waits (GPIO polling) in the current read
    sleep_arg,     \* argument of sleep_ms in the current read, -1 if none
    converted,     \* dht22_convert_data was called in the current read
    entry,         \* snapshot of state and slots at entry of the read
    age,           \* real ms since the last capture after init, -1 if none
    start_age,     \* age when the current read began its start signal
    prev_result,   \* code returned by the latest read after init
    reads,         \* number of dht22_read calls so far
    timeouts,      \* edge waits of the current read that returned -1
    init_call,     \* argument and return value of the latest dht22_init
    poll,          \* one call of wait_for_pin_state, step by step
    pulse_length,  \* dht22_read_data's local pulse_length
    temperature_result, \* the caller's copy of the value dht22_read returned
    servo_triggered,    \* main's flag of environment-monitoring.c
    servo_cmd,     \* angle the latest loop iteration sent the servo, -1: none
    servo_before   \* servo_triggered when the latest loop iteration began

vars == <<dht22_state, clock_ms, temperature, humidity, pc, result, data,
          bit_i, phase, wire, current_time, events, samples, sleep_arg,
          converted, entry, age, start_age, prev_result, reads, timeouts,
          init_call, poll, pulse_length, temperature_result,
          servo_triggered, servo_cmd, servo_before>>

\* the variables of the callers' loops, which the driver leaves alone
caller == <<temperature_result, servo_triggered, servo_cmd, servo_before>>

\* main before its loop: bool servo_triggered = false, no servo command yet
CallerReset ==
    /\ temperature_result = DHT22_OK
    /\ servo_triggered = FALSE
    /\ servo_cmd = -1
    /\ servo_before = FALSE

\* the variables of the stand-alone models of wait_for_pin_state and of the
\* bit decoding, which the driver model leaves alone
side == <<poll, pulse_length, caller>>

\* no call of wait_for_pin_state is being followed
NoPoll == [pc |-> "none"]

\* marks "no read has returned since dht22_init"
NoResult == 1

\* dht22_init has not been called
NoInit == [pin |-> 0, ret |-> NoResult]

NoEntry == [state |-> [last_read_time_ms |-> Zero32, pin |-> 0,
                       initialized |-> FALSE],
            temperature |-> 0, humidity |-> 0, age |-> -1,
            prev |-> NoResult]

\* real time that saturates at the pacing interval
Older(a, d) == IF a = -1 THEN -1 ELSE Min(a + d, DHT22_MIN_INTERVAL_MS)

\* static dht22_state_t dht22_state = {0, 0, false}; the callers' slots are
\* zero-initialised (globals, or "float temp = 0.0f")
DriverReset ==
    /\ dht22_state = [last_read_time_ms |-> Zero32, pin |-> 0,
                      initialized |-> FALSE]
    /\ clock_ms = Zero32
    /\ temperature = 0
    /\ humidity = 0
    /\ pc = "idle"
    /\ result = DHT22_OK
    /\ data = ZeroFrame
    /\ bit_i = 0
    /\ phase = 0
    /\ wire = ZeroFrame
    /\ current_time = Zero32
    /\ events = <<>>
    /\ samples = 0
    /\ sleep_arg = -1
    /\ converted = FALSE
    /\ entry = NoEntry
    /\ age = -1
    /\ start_age = -1
    /\ prev_result = NoResult
    /\ reads = 0
    /\ timeouts = 0
    /\ init_call = NoInit

Init ==
    /\ DriverReset
    /\ poll = NoPoll
    /\ pulse_length = 0
    /\ CallerReset

Outside == pc \in {"idle", "done"}

\* the locals and the per-call record of a read that has returned
ForgetCall ==
    /\ pc' = "idle"
    /\ data' = ZeroFrame
    /\ bit_i' = 0
    /\ phase' = 0
    /\ wire' = ZeroFrame
    /\ current_time' = Zero32
    /\ events' = <<>>
    /\ samples' = 0
    /\ timeouts' = 0
    /\ sleep_arg' = -1
    /\ converted' = FALSE
    /\ entry' = NoEntry
    /\ start_age' = -1
    /\ result' = DHT22_OK

\* dht22_init without the reset of last_read_time_ms
dht22_init_keeps_time(pin) ==
    /\ Outside
    /\ dht22_state' = [dht22_state EXCEPT !.pin = pin, !.initialized = TRUE]
    /\ age' = -1
    /\ prev_result' = NoResult
    /\ init_call' = [pin |-> pin, ret |-> DHT22_OK]
    /\ ForgetCall
    /\ UNCHANGED <<clock_ms, temperature, humidity, reads, side>>

\* int dht22_init(uint32_t pin)
dht22_init(pin) ==
    /\ Outside
    /\ dht22_state' = [last_read_time_ms |-> Zero32, pin |-> pin,
                       initialized |-> TRUE]
    /\ age' = -1
    /\ prev_result' = NoResult
    /\ init_call' = [pin |-> pin, ret |-> DHT22_OK]
    /\ ForgetCall
    /\ UNCHANGED <<clock_ms, temperature, humidity, reads, side>>

\* after a read has returned the caller does something else for d ms
Tick(d) ==
    /\ pc = "done"
    /\ clock_ms' = Add32(clock_ms, d)
    /\ age' = Older(age, d)
    /\ ForgetCall
    /\ UNCHANGED <<dht22_state, temperature, humidity, prev_result, reads,
                   init_call, side>>

\* the program keeps running until WrapLead ms before the millisecond
\* counter wraps
RunUntilNearWrap ==
    /\ Outside
    /\ clock_ms[1] < B16 \div 2
    /\ clock_ms' = Sub32(Zero32, U32(WrapLead))
    /\ age' = Older(age, DHT22_MIN_INTERVAL_MS)
    /\ ForgetCall
    /\ UNCHANGED <<dht22_state, temperature, humidity, prev_result, reads,
                   init_call, side>>

\* static inline int wait_for_pin_state(pin, state, timeout_us) by its
\* outcome: -1 when the loop reads a clock beyond the timeout before it
\* samples the line at the level, 0 otherwise; the loop itself is PollSample
\* and PollCheck below
wait_for_pin_state(delay, timeout_us) ==
    IF delay = Never \/ delay > timeout_us THEN -1 ELSE 0

\* the comparison of dht22_verify_checksum inverted
dht22_verify_checksum_inverted(d) ==
    IF Sum4(d) = d[5] THEN DHT22_ERROR_CHECKSUM ELSE DHT22_OK

\* a mismatch reported with the code of the range test
dht22_verify_checksum_wrong_code(d) ==
    IF Sum4(d) # d[5] THEN DHT22_ERROR_INVALID_DATA ELSE DHT22_OK

\* static int dht22_verify_checksum(const uint8_t *data)
dht22_verify_checksum(d) ==
    IF Sum4(d) # d[5] THEN DHT22_ERROR_CHECKSUM ELSE DHT22_OK

\* *humidity = ((data[0] << 8) | data[1]) * 0.1, in tenths
ConvertHumidity(d) == d[1] * 256 + d[2]

\* the magnitude taken without masking the sign bit
ConvertTemperature_unmasked(d) ==
    LET mag == d[3] * 256 + d[4]
    IN  IF Bit(d[3], 7) = 1 THEN -mag ELSE mag

\* the sign bit never applied
ConvertTemperature_unsigned(d) == (d[3] % 128) * 256 + d[4]

\* *temperature = ((data[2] & 0x7F) << 8 | data[3]) * 0.1, negated when
\* data[2] & 0x80, in tenths
ConvertTemperature(d) ==
    LET mag == (d[3] % 128) * 256 + d[4]
    IN  IF Bit(d[3], 7) = 1 THEN -mag ELSE mag

\* the range test without the lower temperature limit
OutOfRange_no_lower(t, h) == h < 0 \/ h > 1000 \/ t > 800

\* the range test without the upper temperature limit
OutOfRange_no_upper(t, h) == h < 0 \/ h > 1000 \/ t < -400

\* the range test of dht22_convert_data, on tenths
OutOfRange(t, h) == h < 0 \/ h > 1000 \/ t < -400 \/ t > 800

\* the pacing test with the interval itself still too early
MustWait_inclusive(now, last) ==
    /\ ~Lt32(U32(DHT22_MIN_INTERVAL_MS), Sub32(now, last))
    /\ last # Zero32

\* the pacing test of dht22_read
MustWait(now, last) ==
    /\ Lt32(Sub32(now, last), U32(DHT22_MIN_INTERVAL_MS))
    /\ last # Zero32

\* the argument of sleep_ms in dht22_read
SleepFor(now, last) == Sub32(U32(DHT22_MIN_INTERVAL_MS), Sub32(now, last))

\* the initialization check left out
NotInitialized_unchecked(st) == FALSE

\* dht22_read: if (!dht22_state.initialized)
NotInitialized(st) == ~st.initialized

Return(code) ==
    /\ result' = code
    /\ prev_result' = code
    /\ pc' = "done"

\* dht22_read, entry: locals and the initialization check
dht22_read_enter ==
    /\ Outside
    /\ reads < MaxReads
    /\ reads' = reads + 1
    /\ entry' = [state |-> dht22_state, temperature |-> temperature,
                 humidity |-> humidity, age |-> age,
                 prev |-> prev_result]
    /\ data' = ZeroFrame
    /\ bit_i' = 0
    /\ phase' = 0
    /\ wire' = ZeroFrame
    /\ current_time' = Zero32
    /\ events' = <<>>
    /\ samples' = 0
    /\ timeouts' = 0
    /\ sleep_arg' = -1
    /\ converted' = FALSE
    /\ start_age' = -1
    /\ IF NotInitialized(dht22_state)
         THEN Return(DHT22_ERROR_NOT_INITIALIZED)
         ELSE pc' = "gate" /\ result' = DHT22_OK /\ prev_result' = prev_result
    /\ UNCHANGED <<dht22_state, clock_ms, temperature, humidity, age,
                   init_call, side>>

\* the timestamp taken when the read passes the gate instead of after the
\* capture
dht22_read_pace_stamps ==
    /\ pc = "gate"
    /\ current_time' = clock_ms
    /\ IF MustWait(clock_ms, dht22_state.last_read_time_ms)
         THEN LET ms == Val32(SleepFor(clock_ms,
                                       dht22_state.last_read_time_ms))
              IN  /\ sleep_arg' = ms
                  /\ events' = Append(events, <<"sleep_ms", ms>>)
                  /\ clock_ms' = Add32(clock_ms, ms)
                  /\ age' = Older(age, ms)
         ELSE UNCHANGED <<sleep_arg, events, clock_ms, age>>
    /\ pc' = "start"
    /\ dht22_state' = [dht22_state EXCEPT !.last_read_time_ms = clock_ms']
    /\ UNCHANGED <<temperature, humidity, result, data, bit_i, phase, wire,
                   samples, timeouts, converted, entry, start_age,
                   prev_result, reads, init_call, side>>

\* dht22_read, the minimum interval between reads
dht22_read_pace ==
    /\ pc = "gate"
    /\ current_time' = clock_ms
    /\ IF MustWait(clock_ms, dht22_state.last_read_time_ms)
         THEN LET ms == Val32(SleepFor(clock_ms,
                                       dht22_state.last_read_time_ms))
              IN  /\ sleep_arg' = ms
                  /\ events' = Append(events, <<"sleep_ms", ms>>)
                  /\ clock_ms' = Add32(clock_ms, ms)
                  /\ age' = Older(age, ms)
         ELSE UNCHANGED <<sleep_arg, events, clock_ms, age>>
    /\ pc' = "start"
    /\ UNCHANGED <<dht22_state, temperature, humidity, result, data, bit_i,
                   phase, wire, samples, timeouts, converted, entry,
                   start_age, prev_result, reads, init_call, side>>

\* the start signal with the pin switched to input before the line is
\* driven high
StartEvents_input_early ==
    << <<"gpio_set_dir", 1>>,
       <<"gpio_put", 0>>,
       <<"sleep_us", DHT22_START_SIGNAL_DELAY>>,
       <<"gpio_set_dir", 0>>,
       <<"gpio_put", 1>>,
       <<"sleep_us", 30>> >>

\* the calls of dht22_send_start_signal, in order; the direction is 1 for
\* GPIO_OUT and 0 for GPIO_IN
StartEvents ==
    << <<"gpio_set_dir", 1>>,
       <<"gpio_put", 0>>,
       <<"sleep_us", DHT22_START_SIGNAL_DELAY>>,
       <<"gpio_put", 1>>,
       <<"sleep_us", 30>>,
       <<"gpio_set_dir", 0>> >>

\* static int dht22_send_start_signal(uint32_t pin)
dht22_send_start_signal ==
    /\ pc = "start"
    /\ start_age' = age
    /\ events' = events \o StartEvents
    /\ clock_ms' = Add32(clock_ms, StartSignalMs)
    /\ age' = Older(age, StartSignalMs)
    /\ pc' = "response"
    /\ UNCHANGED <<dht22_state, temperature, humidity, result, data, bit_i,
                   phase, wire, current_time, samples, timeouts, sleep_arg,
                   converted, entry, prev_result, reads, init_call, side>>

\* the levels dht22_wait_for_response waits for, in order
HandshakeLevels == <<0, 1, 0>>

\* the calls made by a complete handshake
ResponseEvents ==
    [k \in 1..3 |-> <<"wait_for_pin_state", HandshakeLevels[k],
                      DHT22_RESPONSE_WAIT_TIMEOUT>>]

\* the handshake sending the start signal once more after a first timeout
dht22_wait_for_response_retries ==
    /\ pc = "response"
    /\ samples' = samples + 1
    /\ events' = Append(events, <<"wait_for_pin_state",
                                  HandshakeLevels[phase + 1],
                                  DHT22_RESPONSE_WAIT_TIMEOUT>>)
    /\ \E delay \in EdgeDelays :
         IF wait_for_pin_state(delay, DHT22_RESPONSE_WAIT_TIMEOUT) # 0
           THEN /\ timeouts' = timeouts + 1
                /\ wire' = wire
                /\ IF timeouts = 0
                     THEN /\ pc' = "start"
                          /\ phase' = 0
                          /\ result' = result
                          /\ prev_result' = prev_result
                     ELSE /\ Return(DHT22_ERROR_TIMEOUT)
                          /\ phase' = phase
           ELSE /\ phase' = phase + 1
                /\ timeouts' = timeouts
                /\ result' = result
                /\ prev_result' = prev_result
                /\ IF phase = 2
                     THEN pc' = "data" /\ wire' \in FrameSet
                     ELSE pc' = "response" /\ wire' = wire
    /\ UNCHANGED <<dht22_state, clock_ms, temperature, humidity, data, bit_i,
                   current_time, sleep_arg, converted, entry, age,
                   start_age, reads, init_call, side>>

\* the handshake listening on, from any of its three waits, when an edge
\* wait times out
dht22_wait_for_response_keeps_waiting ==
    /\ pc = "response"
    /\ \E delay \in EdgeDelays :
         IF wait_for_pin_state(delay, DHT22_RESPONSE_WAIT_TIMEOUT) # 0
           THEN /\ pc' = "response"
                /\ phase' = (phase + 1) % 3
                /\ UNCHANGED <<samples, events, timeouts, wire, result,
                               prev_result>>
           ELSE /\ samples' = samples + 1
                /\ events' = Append(events, <<"wait_for_pin_state",
                                              HandshakeLevels[phase + 1],
                                              DHT22_RESPONSE_WAIT_TIMEOUT>>)
                /\ phase' = phase + 1
                /\ timeouts' = timeouts
                /\ result' = result
                /\ prev_result' = prev_result
                /\ IF phase = 2
                     THEN pc' = "data" /\ wire' \in FrameSet
                     ELSE pc' = "response" /\ wire' = wire
    /\ UNCHANGED <<dht22_state, clock_ms, temperature, humidity, data, bit_i,
                   current_time, sleep_arg, converted, entry, age,
                   start_age, reads, init_call, side>>

\* static int dht22_wait_for_response(uint32_t pin): one edge wait per step,
\* for low, high, low; after the third the sensor starts its frame
dht22_wait_for_response ==
    /\ pc = "response"
    /\ samples' = samples + 1
    /\ events' = Append(events, <<"wait_for_pin_state",
                                  HandshakeLevels[phase + 1],
                                  DHT22_RESPONSE_WAIT_TIMEOUT>>)
    /\ \E delay \in EdgeDelays :
         IF wait_for_pin_state(delay, DHT22_RESPONSE_WAIT_TIMEOUT) # 0
           THEN /\ Return(DHT22_ERROR_TIMEOUT)
                /\ timeouts' = timeouts + 1
                /\ UNCHANGED <<phase, wire>>
           ELSE /\ phase' = phase + 1
                /\ timeouts' = timeouts
                /\ result' = result
                /\ prev_result' = prev_result
                /\ IF phase = 2
                     THEN pc' = "data" /\ wire' \in FrameSet
                     ELSE pc' = "response" /\ wire' = wire
    /\ UNCHANGED <<dht22_state, clock_ms, temperature, humidity, data, bit_i,
                   current_time, sleep_arg, converted, entry, age,
                   start_age, reads, init_call, side>>

\* the bit stored as 1 from the threshold on
StoreBit_from_threshold(d, i, len) ==
    IF len >= DHT22_BIT_THRESHOLD
      THEN [d EXCEPT ![(i \div 8) + 1] = OrBit(@, 7 - (i % 8))]
      ELSE d

\* the bit stored least significant bit first
StoreBit_lsb_first(d, i, len) ==
    IF len > DHT22_BIT_THRESHOLD
      THEN [d EXCEPT ![(i \div 8) + 1] = OrBit(@, i % 8)]
      ELSE d

\* dht22_read_data: if (pulse_length > DHT22_BIT_THRESHOLD)
\*                      data[i / 8] |= (1 << (7 - (i % 8)));
StoreBit(d, i, len) ==
    IF len > DHT22_BIT_THRESHOLD
      THEN [d EXCEPT ![(i \div 8) + 1] = OrBit(@, 7 - (i % 8))]
      ELSE d

\* the bit loop going on to the next bit after a falling edge that timed out
dht22_read_data_keeps_going ==
    /\ pc = "data"
    /\ \E rise \in EdgeDelays, high \in PulseFor(WireBit(wire, bit_i)) :
         IF wait_for_pin_state(rise, DHT22_RESPONSE_WAIT_TIMEOUT) # 0
           THEN /\ samples' = samples + 1
                /\ timeouts' = timeouts + 1
                /\ Return(DHT22_ERROR_TIMEOUT)
                /\ UNCHANGED <<data, bit_i, clock_ms, age>>
           ELSE IF wait_for_pin_state(high, DHT22_RESPONSE_WAIT_TIMEOUT) # 0
           THEN /\ samples' = samples + 2
                /\ timeouts' = timeouts + 1
                /\ data' = StoreBit(data, bit_i, high)
                /\ bit_i' = bit_i + 1
                /\ result' = result
                /\ prev_result' = prev_result
                /\ IF bit_i + 1 < 40
                     THEN pc' = "data" /\ UNCHANGED <<clock_ms, age>>
                     ELSE /\ pc' = "stamp"
                          /\ clock_ms' = Add32(clock_ms, CaptureMs)
                          /\ age' = Older(age, CaptureMs)
           ELSE /\ samples' = samples + 2
                /\ timeouts' = timeouts
                /\ data' = StoreBit(data, bit_i, high)
                /\ bit_i' = bit_i + 1
                /\ result' = result
                /\ prev_result' = prev_result
                /\ IF bit_i + 1 < 40
                     THEN pc' = "data" /\ UNCHANGED <<clock_ms, age>>
                     ELSE /\ pc' = "stamp"
                          /\ clock_ms' = Add32(clock_ms, CaptureMs)
                          /\ age' = Older(age, CaptureMs)
    /\ UNCHANGED <<dht22_state, temperature, humidity, phase, wire,
                   current_time, events, sleep_arg, converted, entry,
                   start_age, reads, init_call, side>>

\* static int dht22_read_data(uint32_t pin, uint8_t *data): one iteration of
\* the loop per step
dht22_read_data ==
    /\ pc = "data"
    /\ \E rise \in EdgeDelays, high \in PulseFor(WireBit(wire, bit_i)) :
         IF wait_for_pin_state(rise, DHT22_RESPONSE_WAIT_TIMEOUT) # 0
           THEN /\ samples' = samples + 1
                /\ timeouts' = timeouts + 1
                /\ Return(DHT22_ERROR_TIMEOUT)
                /\ UNCHANGED <<data, bit_i, clock_ms, age>>
           ELSE IF wait_for_pin_state(high, DHT22_RESPONSE_WAIT_TIMEOUT) # 0
           THEN /\ samples' = samples + 2
                /\ timeouts' = timeouts + 1
                /\ Return(DHT22_ERROR_TIMEOUT)
                /\ UNCHANGED <<data, bit_i, clock_ms, age>>
           ELSE /\ samples' = samples + 2
                /\ timeouts' = timeouts
                /\ data' = StoreBit(data, bit_i, high)
                /\ bit_i' = bit_i + 1
                /\ result' = result
                /\ prev_result' = prev_result
                /\ IF bit_i + 1 < 40
                     THEN pc' = "data" /\ UNCHANGED <<clock_ms, age>>
                     ELSE /\ pc' = "stamp"
                          /\ clock_ms' = Add32(clock_ms, CaptureMs)
                          /\ age' = Older(age, CaptureMs)
    /\ UNCHANGED <<dht22_state, temperature, humidity, phase, wire,
                   current_time, events, sleep_arg, converted, entry,
                   start_age, reads, init_call, side>>

\* dht22_read: dht22_state.last_read_time_ms = to_ms_since_boot(...)
dht22_read_stamp ==
    /\ pc = "stamp"
    /\ dht22_state' = [dht22_state EXCEPT !.last_read_time_ms = clock_ms]
    /\ age' = 0
    /\ pc' = "verify"
    /\ UNCHANGED <<clock_ms, temperature, humidity, result, data, bit_i,
                   phase, wire, current_time, events, samples, timeouts,
                   sleep_arg, converted, entry, start_age, prev_result,
                   reads, init_call, side>>

\* dht22_read: result = dht22_verify_checksum(data)
dht22_read_verify ==
    /\ pc = "verify"
    /\ IF dht22_verify_checksum(data) # DHT22_OK
         THEN Return(dht22_verify_checksum(data))
         ELSE pc' = "convert" /\ result' = result /\ prev_result' = prev_result
    /\ UNCHANGED <<dht22_state, clock_ms, temperature, humidity, data, bit_i,
                   phase, wire, current_time, events, samples, timeouts,
                   sleep_arg, converted, entry, age, start_age, reads,
                   init_call, side>>

\* static int dht22_convert_data(data, temperature, humidity): both slots
\* are assigned before the range test
dht22_convert_data ==
    /\ pc = "convert"
    /\ converted' = TRUE
    /\ humidity' = ConvertHumidity(data)
    /\ temperature' = ConvertTemperature(data)
    /\ IF OutOfRange(ConvertTemperature(data), ConvertHumidity(data))
         THEN Return(DHT22_ERROR_INVALID_DATA)
         ELSE Return(DHT22_OK)
    /\ UNCHANGED <<dht22_state, clock_ms, data, bit_i, phase, wire,
                   current_time, events, samples, timeouts, sleep_arg, entry,
                   age, start_age, reads, init_call, side>>

Next ==
    \/ \E pin \in PinSet : dht22_init(pin)
    \/ \E d \in TickSet : Tick(d)
    \/ RunUntilNearWrap
    \/ dht22_read_enter
    \/ dht22_read_pace
    \/ dht22_send_start_signal
    \/ dht22_wait_for_response
    \/ dht22_read_data
    \/ dht22_read_stamp
    \/ dht22_read_verify
    \/ dht22_convert_data

Spec == Init /\ [][Next]_vars

\* the steps of a dht22_read that has been entered
ReadStep ==
    \/ dht22_read_pace
    \/ dht22_send_start_signal
    \/ dht22_wait_for_response
    \/ dht22_read_data
    \/ dht22_read_stamp
    \/ dht22_read_verify
    \/ dht22_convert_data

\* ------------------------------------------------------- one-call model
\* the states a dht22_read can be called in: the driver never initialized;
\* initialized and never read; or a frame captured 1, 1999 or at least 2000
\* ms ago, with the millisecond counter at 5000 or at 1999, where the stamp
\* of the capture is 0 or lies before the wrap of the counter
InitCall ==
    \/ Init
    \/ \E a \in {-1, 1, 1999, DHT22_MIN_INTERVAL_MS},
           now \in {U32(1999), U32(5000)}, pin \in PinSet :
         /\ dht22_state =
              [last_read_time_ms |->
                   IF a = -1 THEN Zero32 ELSE Sub32(now, U32(a)),
               pin |-> pin, initialized |-> TRUE]
         /\ clock_ms = now
         /\ temperature =
              (IF a = -1 THEN 0 ELSE ConvertTemperature(FrameExample))
         /\ humidity =
              (IF a = -1 THEN 0 ELSE ConvertHumidity(FrameExample))
         /\ pc = "idle"
         /\ result = DHT22_OK
         /\ data = ZeroFrame
         /\ bit_i = 0
         /\ phase = 0
         /\ wire = ZeroFrame
         /\ current_time = Zero32
         /\ events = <<>>
         /\ samples = 0
         /\ sleep_arg = -1
         /\ converted = FALSE
         /\ entry = NoEntry
         /\ age = a
         /\ start_age = -1
         /\ prev_result = (IF a = -1 THEN NoResult ELSE DHT22_OK)
         /\ reads = 0
         /\ timeouts = 0
         /\ init_call = [pin |-> pin, ret |-> DHT22_OK]
         /\ poll = NoPoll
         /\ pulse_length = 0
         /\ CallerReset

\* one call of dht22_read from its entry to its return
NextCall ==
    \/ pc = "idle" /\ dht22_read_enter
    \/ ReadStep

\* the processor keeps executing a call that has been entered; the sleeps
\* and the edge waits inside a step end because the clocks advance
SpecLive == InitCall /\ [][NextCall]_vars /\ WF_vars(ReadStep)

TypeOK ==
    /\ pc \in {"idle", "gate", "start", "response", "data", "stamp",
               "verify", "convert", "done"}
    /\ result \in {DHT22_OK, DHT22_ERROR_CHECKSUM, DHT22_ERROR_TIMEOUT,
                   DHT22_ERROR_INVALID_DATA, DHT22_ERROR_NOT_INITIALIZED}
    /\ \A k \in 1..5 : data[k] \in 0..255
    /\ bit_i \in 0..40
    /\ clock_ms[1] \in 0..(B16 - 1) /\ clock_ms[2] \in 0..(B16 - 1)

\* ------------------------------------------------ frame-conversion model
\* frames for the validation and conversion of a captured frame: humidity
\* 40.0, 48.8, 100.0, 100.1 and above; temperature 20.0, 80.0, 80.1, -40.0,
\* -40.1, -80.0 and beyond; checksum right, off by one, or 0xFF
WideFrames ==
    { <<b0, b1, b2, b3, (b0 + b1 + b2 + b3 + k) % 256>> :
        b0 \in {1, 3, 255}, b1 \in {144, 232, 233},
        b2 \in {0, 3, 129, 131, 255}, b3 \in {32, 33, 144, 145, 200},
        k \in {0, 1, 37} }

\* an initialized driver whose first read has sent the start signal and seen
\* the three handshake edges; the sensor is about to send any wide frame
InitFrame ==
    /\ dht22_state = [last_read_time_ms |-> Zero32, pin |-> 2,
                      initialized |-> TRUE]
    /\ clock_ms = U32(StartSignalMs)
    /\ temperature = 0
    /\ humidity = 0
    /\ pc = "data"
    /\ result = DHT22_OK
    /\ data = ZeroFrame
    /\ bit_i = 0
    /\ phase = 3
    /\ wire \in WideFrames
    /\ current_time = Zero32
    /\ events = StartEvents \o ResponseEvents
    /\ samples = 3
    /\ sleep_arg = -1
    /\ converted = FALSE
    /\ entry = [state |-> dht22_state, temperature |-> 0, humidity |-> 0,
                age |-> -1, prev |-> NoResult]
    /\ age = -1
    /\ start_age = -1
    /\ prev_result = NoResult
    /\ reads = 1
    /\ timeouts = 0
    /\ init_call = [pin |-> 2, ret |-> DHT22_OK]
    /\ poll = NoPoll
    /\ pulse_length = 0
    /\ CallerReset

NextFrame ==
    \/ dht22_read_data
    \/ dht22_read_stamp
    \/ dht22_read_verify
    \/ dht22_convert_data

SpecFrame == InitFrame /\ [][NextFrame]_vars

\* ----------------------------------------------------------- pacing model
\* the pacing gate of dht22_read on pairs of 32-bit timestamps: the stored
\* timestamp is 0, small, in the middle of the range or just below 2^32, and
\* the clock reads 0..MaxGap ms more, modulo 2^32, or a little less
GateStamps ==
    {Zero32, U32(1), U32(DHT22_MIN_INTERVAL_MS), <<B16 \div 2, 0>>,
     Sub32(Zero32, U32(1000)), Sub32(Zero32, U32(1))}

InitGate ==
    \E last \in GateStamps :
      \E now \in {Add32(last, e) : e \in 0..MaxGap}
                   \cup {Sub32(last, U32(1)),
                         Sub32(last, U32(DHT22_MIN_INTERVAL_MS))} :
        /\ dht22_state = [last_read_time_ms |-> last, pin |-> 2,
                          initialized |-> TRUE]
        /\ clock_ms = now
        /\ temperature = 0
        /\ humidity = 0
        /\ pc = "gate"
        /\ result = DHT22_OK
        /\ data = ZeroFrame
        /\ bit_i = 0
        /\ phase = 0
        /\ wire = ZeroFrame
        /\ current_time = Zero32
        /\ events = <<>>
        /\ samples = 0
        /\ sleep_arg = -1
        /\ converted = FALSE
        /\ age = IF last = Zero32 THEN -1
                 ELSE IF Lt32(Sub32(now, last), U32(DHT22_MIN_INTERVAL_MS))
                        THEN Val32(Sub32(now, last))
                        ELSE DHT22_MIN_INTERVAL_MS
        /\ entry = [state |-> dht22_state, temperature |-> 0,
                    humidity |-> 0, age |-> age,
                    prev |-> IF last = Zero32 THEN NoResult ELSE DHT22_OK]
        /\ start_age = -1
        /\ prev_result = (IF last = Zero32 THEN NoResult ELSE DHT22_OK)
        /\ reads = 1
        /\ timeouts = 0
        /\ init_call = [pin |-> 2, ret |-> DHT22_OK]
        /\ poll = NoPoll
        /\ pulse_length = 0
        /\ CallerReset

NextGate == dht22_read_pace

SpecGate == InitGate /\ [][NextGate]_vars

\* ---------------------------------------------------- bit-decoding model
\* one iteration of the loop of dht22_read_data from the measurement of the
\* high pulse on: any bit position, any pulse of 0..MaxPulse microseconds
\* measured from a 32-bit clock that may wrap during the pulse
InitBit ==
    /\ dht22_state = [last_read_time_ms |-> Zero32, pin |-> 2,
                      initialized |-> TRUE]
    /\ clock_ms = U32(StartSignalMs)
    /\ temperature = 0
    /\ humidity = 0
    /\ pc = "store"
    /\ result = DHT22_OK
    /\ data = ZeroFrame
    /\ bit_i \in 0..39
    /\ phase = 3
    /\ wire = ZeroFrame
    /\ current_time = Zero32
    /\ events = StartEvents \o ResponseEvents
    /\ samples = 3 + 2 * bit_i + 2
    /\ sleep_arg = -1
    /\ converted = FALSE
    /\ entry = [state |-> dht22_state, temperature |-> 0, humidity |-> 0,
                age |-> -1, prev |-> NoResult]
    /\ age = -1
    /\ start_age = -1
    /\ prev_result = NoResult
    /\ reads = 1
    /\ timeouts = 0
    /\ init_call = [pin |-> 2, ret |-> DHT22_OK]
    /\ poll = NoPoll
    /\ \E pulse_start \in {Zero32, Sub32(Zero32, U32(DHT22_BIT_THRESHOLD))},
          d \in 0..MaxPulse :
         pulse_length = Val32(Sub32(Add32(pulse_start, d), pulse_start))
    /\ CallerReset

\* dht22_read_data: the test of pulse_length and the store of the bit
dht22_read_data_store ==
    /\ pc = "store"
    /\ data' = StoreBit(data, bit_i, pulse_length)
    /\ bit_i' = bit_i + 1
    /\ pc' = IF bit_i + 1 < 40 THEN "data" ELSE "stamp"
    /\ UNCHANGED <<dht22_state, clock_ms, temperature, humidity, result,
                   phase, wire, current_time, events, samples, sleep_arg,
                   converted, entry, age, start_age, prev_result, reads,
                   timeouts, init_call, poll, pulse_length,
                   caller>>

NextBit == dht22_read_data_store

SpecBit == InitBit /\ [][NextBit]_vars

\* ------------------------------------------------------- polling model
\* one call wait_for_pin_state(pin, state, timeout_us) step by step, with a
\* line that changes level at any time and a clock that advances between
\* any two steps of the loop
\*   start       time_us_32() read at entry, 32 bits
\*   elapsed     real microseconds since that reading
\*   level       level of the line now;  state: the level waited for
\*   ret         value returned, NoResult while the loop runs
\*   hit_at      elapsed time of the sample that found the level, -1 if none
\*   last_check  elapsed time of the latest clock reading in the loop, -1
\*   on_time     the line was at the level at some instant <= timeout_us
\*   seen        the line was at the level at some instant since entry
PollSteps == {1, 40}

\* time_us_32()
time_us_32 == Add32(poll.start, poll.elapsed)

\* the timeout declared as soon as the limit is reached
TimedOut_at_limit(now, start, timeout_us) ==
    ~Lt32(Sub32(now, start), U32(timeout_us))

\* (time_us_32() - start) > timeout_us
TimedOut(now, start, timeout_us) ==
    Lt32(U32(timeout_us), Sub32(now, start))

InitWait ==
    /\ DriverReset
    /\ pulse_length = 0
    /\ CallerReset
    /\ \E st \in {Zero32, Sub32(Zero32, U32(100))}, lv \in {0, 1},
          tg \in {0, 1} :
         poll = [pc |-> "sample", start |-> st, elapsed |-> 0,
                 level |-> lv, state |-> tg,
                 timeout_us |-> DHT22_RESPONSE_WAIT_TIMEOUT,
                 ret |-> NoResult, hit_at |-> -1, last_check |-> -1,
                 on_time |-> (lv = tg), seen |-> (lv = tg)]

\* while (gpio_get(pin) != state)
PollSample ==
    /\ poll.pc = "sample"
    /\ poll' = IF poll.level = poll.state
                 THEN [poll EXCEPT !.pc = "ret", !.ret = 0,
                                   !.hit_at = poll.elapsed]
                 ELSE [poll EXCEPT !.pc = "check"]
    /\ UNCHANGED <<dht22_state, clock_ms, temperature, humidity, pc, result,
                   data, bit_i, phase, wire, current_time, events, samples,
                   sleep_arg, converted, entry, age, start_age, prev_result,
                   reads, timeouts, init_call, pulse_length, caller>>

\* if ((time_us_32() - start) > timeout_us) return -1;
PollCheck ==
    /\ poll.pc = "check"
    /\ poll' = IF TimedOut(time_us_32, poll.start, poll.timeout_us)
                 THEN [poll EXCEPT !.pc = "ret", !.ret = -1,
                                   !.last_check = poll.elapsed]
                 ELSE [poll EXCEPT !.pc = "sample",
                                   !.last_check = poll.elapsed]
    /\ UNCHANGED <<dht22_state, clock_ms, temperature, humidity, pc, result,
                   data, bit_i, phase, wire, current_time, events, samples,
                   sleep_arg, converted, entry, age, start_age, prev_result,
                   reads, timeouts, init_call, pulse_length, caller>>

\* d microseconds pass while the loop runs
PollTime(d) ==
    /\ poll.pc \in {"sample", "check"}
    /\ poll.elapsed + d <= MaxElapsed
    /\ poll' = [poll EXCEPT
                  !.elapsed = @ + d,
                  !.on_time = @ \/ (poll.level = poll.state
                                      /\ poll.elapsed <= poll.timeout_us)]
    /\ UNCHANGED <<dht22_state, clock_ms, temperature, humidity, pc, result,
                   data, bit_i, phase, wire, current_time, events, samples,
                   sleep_arg, converted, entry, age, start_age, prev_result,
                   reads, timeouts, init_call, pulse_length, caller>>

\* the sensor, or noise, changes the level of the line
LineFlip ==
    /\ poll.pc \in {"sample", "check"}
    /\ poll' = [poll EXCEPT
                  !.level = 1 - @,
                  !.seen = @ \/ (1 - poll.level = poll.state),
                  !.on_time = @ \/ (1 - poll.level = poll.state
                                      /\ poll.elapsed <= poll.timeout_us)]
    /\ UNCHANGED <<dht22_state, clock_ms, temperature, humidity, pc, result,
                   data, bit_i, phase, wire, current_time, events, samples,
                   sleep_arg, converted, entry, age, start_age, prev_result,
                   reads, timeouts, init_call, pulse_length, caller>>

NextWait ==
    \/ PollSample
    \/ PollCheck
    \/ \E d \in PollSteps : PollTime(d)
    \/ LineFlip

SpecWait == InitWait /\ [][NextWait]_vars

\* the loop keeps running and the microsecond clock keeps advancing
SpecWaitLive ==
    /\ SpecWait
    /\ WF_vars(PollSample)
    /\ WF_vars(PollCheck)
    /\ WF_vars(\E d \in PollSteps : PollTime(d))

\* ----------------------------------------------------------- the callers
\* the polling loops of environment-monitoring.c and of the second main
\* program call dht22_read as a whole: the call is summed up by its return
\* code and its effect on the driver state, the clock and the two slots
\* (ReadMatchesSteps relates the summary to the steps of dht22_read)

\* frames the sensor sends to the callers: 40.0 % with 30.1, 30.0, 20.0,
\* -5.0 and 80.1 degrees; 100.1 % with 20.0 and 30.1 degrees; a wrong sum
FrameHot == Framed(1, 144, 1, 45)
FrameWarm == Framed(1, 144, 1, 44)
FrameHotInvalid == Framed(1, 144, 3, 33)
FrameHotHumid1001 == Framed(3, 233, 1, 45)
FrameHotBadSum == <<1, 144, 1, 45, 0>>
CallerFrames ==
    {FrameHot, FrameWarm, FrameExample, FrameNeg, FrameHotInvalid,
     FrameHumid1001, FrameHotHumid1001, FrameHotBadSum}

\* time, in ms, the rest of a loop iteration takes besides its sleeps
LoopMs == {1, DHT22_MIN_INTERVAL_MS}

\* the code dht22_read returns when the driver state is st, an edge wait
\* timed out or not, and the 40 bits captured are f
ReadCode(st, timed_out, f) ==
    IF NotInitialized(st) THEN DHT22_ERROR_NOT_INITIALIZED
    ELSE IF timed_out THEN DHT22_ERROR_TIMEOUT
    ELSE IF dht22_verify_checksum(f) # DHT22_OK
      THEN dht22_verify_checksum(f)
    ELSE IF OutOfRange(ConvertTemperature(f), ConvertHumidity(f))
      THEN DHT22_ERROR_INVALID_DATA
    ELSE DHT22_OK

\* dht22_read got as far as the stamp of the capture
ReadStamps(code) ==
    code \in {DHT22_OK, DHT22_ERROR_CHECKSUM, DHT22_ERROR_INVALID_DATA}

\* dht22_read got as far as dht22_convert_data, which assigns both slots
ReadWrites(code) == code \in {DHT22_OK, DHT22_ERROR_INVALID_DATA}

\* a whole call dht22_read(&t, &h) followed by d ms of other work
dht22_read_call(t, h, f, timed_out, d) ==
    LET code == ReadCode(dht22_state, timed_out, f)
        last == dht22_state.last_read_time_ms
        ms == IF MustWait(clock_ms, last)
                THEN Val32(SleepFor(clock_ms, last)) ELSE 0
        sent == Add32(clock_ms, ms + StartSignalMs)
        got == Add32(sent, CaptureMs)
    IN  /\ reads < MaxIter
        /\ reads' = reads + 1
        /\ entry' = [state |-> dht22_state, temperature |-> t,
                     humidity |-> h, age |-> age, prev |-> prev_result]
        /\ result' = code
        /\ prev_result' = code
        /\ temperature_result' = code
        /\ temperature' = IF ReadWrites(code) THEN ConvertTemperature(f)
                          ELSE t
        /\ humidity' = IF ReadWrites(code) THEN ConvertHumidity(f) ELSE h
        /\ dht22_state' = IF ReadStamps(code)
                            THEN [dht22_state EXCEPT
                                    !.last_read_time_ms = got]
                            ELSE dht22_state
        /\ clock_ms' = IF ReadStamps(code) THEN Add32(got, d)
                       ELSE IF code = DHT22_ERROR_TIMEOUT
                         THEN Add32(sent, d)
                       ELSE Add32(clock_ms, d)
        /\ age' = IF ReadStamps(code) THEN Older(0, d)
                  ELSE IF code = DHT22_ERROR_TIMEOUT
                    THEN Older(age, ms + StartSignalMs + d)
                  ELSE Older(age, d)
        /\ UNCHANGED <<pc, data, bit_i, phase, wire, current_time, events,
                       samples, sleep_arg, converted, start_age, timeouts,
                       init_call, poll, pulse_length>>

\* the threshold reached counted as high
is_high_temperature_inclusive(t) == t >= 300

\* bool is_high_temperature(): return temperature > 30.0;
is_high_temperature(t) == t > 300

\* void temperature_monitoring(bool *servo_triggered), then ldr_monitoring
\* and mq2_monitoring, which take d ms
temperature_monitoring(f, timed_out, d) ==
    /\ dht22_read_call(temperature, humidity, f, timed_out, d)
    /\ servo_before' = servo_triggered
    /\ IF temperature_result' = DHT22_OK
         THEN IF is_high_temperature(temperature') /\ ~servo_triggered
                THEN servo_triggered' = TRUE /\ servo_cmd' = 180
              ELSE IF ~is_high_temperature(temperature') /\ servo_triggered
                THEN servo_triggered' = FALSE /\ servo_cmd' = 0
              ELSE servo_triggered' = servo_triggered /\ servo_cmd' = -1
         ELSE servo_triggered' = servo_triggered /\ servo_cmd' = -1

\* one iteration of while (1) of the second main program: temp and umid
\* start at 0.0f, the return value is not looked at, sleep_ms(1000) ends it
main_loop(f, timed_out, d) ==
    /\ dht22_read_call(0, 0, f, timed_out, 1000 + d)
    /\ servo_cmd' = IF temperature' > 300 THEN 180 ELSE 0
    /\ UNCHANGED <<servo_triggered, servo_before>>

\* the state after setup(), or after the calls that precede while (1):
\* dht22_init(2) has run, a few ms after boot
InitSetup ==
    /\ dht22_state = [last_read_time_ms |-> Zero32, pin |-> 2,
                      initialized |-> TRUE]
    /\ clock_ms = U32(CaptureMs)
    /\ temperature = 0
    /\ humidity = 0
    /\ pc = "idle"
    /\ result = DHT22_OK
    /\ data = ZeroFrame
    /\ bit_i = 0
    /\ phase = 0
    /\ wire = ZeroFrame
    /\ current_time = Zero32
    /\ events = <<>>
    /\ samples = 0
    /\ sleep_arg = -1
    /\ converted = FALSE
    /\ entry = NoEntry
    /\ age = -1
    /\ start_age = -1
    /\ prev_result = NoResult
    /\ reads = 0
    /\ timeouts = 0
    /\ init_call = [pin |-> 2, ret |-> DHT22_OK]
    /\ poll = NoPoll
    /\ pulse_length = 0
    /\ CallerReset

NextMonitor ==
    \E f \in CallerFrames, timed_out \in BOOLEAN, d \in LoopMs :
       temperature_monitoring(f, timed_out, d)

SpecMonitor == InitSetup /\ [][NextMonitor]_vars

NextLoop ==
    \E f \in CallerFrames, timed_out \in BOOLEAN, d \in LoopMs :
       main_loop(f, timed_out, d)

SpecLoop == InitSetup /\ [][NextLoop]_vars

\* ------------------------------------------------------------------ claims
Returned(code) == pc = "done" /\ result = code
Captured == pc = "done" /\ bit_i = 40
SumMatches == (data[1] + data[2] + data[3] + data[4]) % 256 = data[5]
RawHumidity == data[1] * 256 + data[2]
RawMagnitude == (data[3] % 128) * 256 + data[4]
RawTemperature == IF data[3] >= 128 THEN 0 - RawMagnitude ELSE RawMagnitude
SlotsUntouched ==
    temperature = entry.temperature /\ humidity = entry.humidity

\* C1: after every dht22_read that returns a failure code the caller's
\* temperature and humidity slots hold the values they held at entry.
C1_FailureLeavesSlots ==
    (pc = "done" /\ result # DHT22_OK) => SlotsUntouched

\* C2: a dht22_read entered with initialized = false returns
\* DHT22_ERROR_NOT_INITIALIZED without any GPIO call, edge wait or sleep and
\* leaves dht22_state as it was.
C2_ReadBeforeInit ==
    (pc # "idle" /\ ~entry.state.initialized) =>
        /\ Returned(DHT22_ERROR_NOT_INITIALIZED)
        /\ events = <<>>
        /\ samples = 0
        /\ sleep_arg = -1
        /\ dht22_state = entry.state

C2_Witness ==
    /\ Returned(DHT22_ERROR_NOT_INITIALIZED)
    /\ reads = 2

\* C3: when a read that returned DHT22_OK directly follows a read that
\* returned DHT22_OK, its start signal began at least 2000 ms after the
\* capture of the earlier one.
C3_SuccessiveReadsSpaced ==
    (Returned(DHT22_OK) /\ entry.prev = DHT22_OK) =>
        start_age >= DHT22_MIN_INTERVAL_MS

\* C4: a read that captured 40 bits has stored the current time in
\* last_read_time_ms also when it returns a checksum or range error, and the
\* start signal of the read that follows it begins at least 2000 ms after
\* that capture.
C4_FailedCaptureStampsAndSpaces ==
    /\ (pc = "done" /\ result \in {DHT22_ERROR_CHECKSUM,
                                   DHT22_ERROR_INVALID_DATA}) =>
           (dht22_state.last_read_time_ms = clock_ms /\ age = 0)
    /\ (pc \notin {"idle", "gate", "start"}
          /\ entry.prev \in {DHT22_ERROR_CHECKSUM, DHT22_ERROR_INVALID_DATA}
          /\ start_age # -1) =>
           start_age >= DHT22_MIN_INTERVAL_MS

\* C5: a captured frame whose byte 4 differs from the sum of bytes 0..3
\* modulo 256 makes the read return DHT22_ERROR_CHECKSUM, without conversion
\* and with the slots as at entry, in range or not.
C5_BadSumRejected ==
    (Captured /\ ~SumMatches) =>
        /\ result = DHT22_ERROR_CHECKSUM
        /\ ~converted
        /\ SlotsUntouched

C5_Witness ==
    /\ Captured
    /\ ~SumMatches
    /\ RawHumidity > 1000
    /\ result = DHT22_ERROR_CHECKSUM

\* C6: a captured checksum-valid frame with raw humidity above 1000 or signed
\* raw temperature below -400 or above 800 makes the read return
\* DHT22_ERROR_INVALID_DATA.
C6_OutOfRangeRejected ==
    (Captured /\ SumMatches
       /\ (RawHumidity > 1000 \/ RawTemperature < -400
             \/ RawTemperature > 800)) =>
        result = DHT22_ERROR_INVALID_DATA

C6_Witness ==
    /\ Captured
    /\ SumMatches
    /\ RawHumidity <= 1000
    /\ RawTemperature = -401
    /\ result = DHT22_ERROR_INVALID_DATA

\* C7: a captured checksum-valid frame with values in range makes the read
\* return DHT22_OK with humidity = bytes 0..1 big-endian / 10 and temperature
\* = 15-bit magnitude / 10, negative exactly when bit 7 of byte 2 is set;
\* [0x01,0x90,0x00,0xC8,0x59] gives 40.0 % and 20.0 degrees.
C7_InRangeConverted ==
    /\ (Captured /\ SumMatches
          /\ RawHumidity <= 1000 /\ RawTemperature >= -400
          /\ RawTemperature <= 800) =>
           /\ result = DHT22_OK
           /\ humidity = RawHumidity
           /\ temperature = RawTemperature
    /\ (Captured /\ data = FrameExample) =>
           (result = DHT22_OK /\ humidity = 400 /\ temperature = 200)

C7_Witness ==
    /\ Captured
    /\ SumMatches
    /\ data[3] >= 128
    /\ temperature = -400
    /\ humidity = 1000
    /\ result = DHT22_OK

\* C8 as stated: a read that captures [0x02,0x8C,0x80,0x32,0xFF] yields
\* temperature -5.0.
C8_PrintedFrameGivesMinus5 ==
    (Captured /\ data = FrameNegBadSum) =>
        (result = DHT22_OK /\ temperature = -50)

\* C8: a read that captures [0x02,0x8C,0x80,0x32,0x40] returns DHT22_OK with
\* temperature -5.0 and humidity 65.2; with byte 4 = 0xFF the read returns
\* DHT22_ERROR_CHECKSUM and converts nothing; conversion is only reached
\* with a frame whose checksum matched.
C8_NegativeFrame ==
    /\ (Captured /\ data = FrameNeg) =>
           (result = DHT22_OK /\ temperature = -50 /\ humidity = 652)
    /\ (Captured /\ data = FrameNegBadSum) =>
           (result = DHT22_ERROR_CHECKSUM /\ ~converted /\ SlotsUntouched)
    /\ (pc = "convert" \/ converted) => SumMatches

C8_Witness ==
    /\ Captured
    /\ data = FrameNeg
    /\ temperature = -50
    /\ entry.temperature # -50

\* C9: a read that returns DHT22_ERROR_TIMEOUT leaves dht22_state
\* (last_read_time_ms, pin, initialized) as it was at entry.
C9_TimeoutKeepsState ==
    Returned(DHT22_ERROR_TIMEOUT) => dht22_state = entry.state

C9_Witness ==
    /\ Returned(DHT22_ERROR_TIMEOUT)
    /\ bit_i = 39
    /\ sleep_arg > 0
    /\ dht22_state.last_read_time_ms # Zero32

\* C10: when a read of an initialized driver is about to send its start
\* signal it has made no GPIO call and no edge wait; it has not slept if no
\* frame was captured since dht22_init or the last capture is 2000 ms old,
\* and otherwise it has slept exactly 2000 ms minus the time since that
\* capture, and nothing else.
C10_PacingBeforeIO ==
    pc = "start" =>
        /\ samples = 0
        /\ IF entry.age = -1 \/ entry.age >= DHT22_MIN_INTERVAL_MS
             THEN sleep_arg = -1 /\ events = <<>>
             ELSE /\ sleep_arg = DHT22_MIN_INTERVAL_MS - entry.age
                  /\ events = << <<"sleep_ms", sleep_arg>> >>

\* C11: dht22_init has returned DHT22_OK for whatever pin it was given and
\* the driver is initialized on that pin; until a read returns, the
\* timestamp is 0 and no capture is on record, also when frames had been
\* captured before the call; the first read after a dht22_init never sleeps.
C11_InitResets ==
    /\ init_call # NoInit =>
           /\ init_call.ret = DHT22_OK
           /\ dht22_state.initialized
           /\ dht22_state.pin = init_call.pin
    /\ (dht22_state.initialized /\ prev_result = NoResult /\ pc = "idle") =>
           (dht22_state.last_read_time_ms = Zero32 /\ age = -1)
    /\ (pc \notin {"idle", "gate"} /\ entry.state.initialized
          /\ entry.prev = NoResult) =>
           sleep_arg = -1

C11_Witness ==
    /\ pc = "start"
    /\ reads = 2
    /\ entry.prev = NoResult
    /\ init_call.pin = 4
    /\ humidity = 400
    /\ clock_ms[1] = 0
    /\ clock_ms[2] < DHT22_MIN_INTERVAL_MS
    /\ sleep_arg = -1

\* C12: whenever a read has returned DHT22_OK the temperature slot is
\* within -40.0..80.0 and the humidity slot within 0.0..100.0.
C12_OkValuesInRange ==
    Returned(DHT22_OK) =>
        /\ temperature >= -400 /\ temperature <= 800
        /\ humidity >= 0 /\ humidity <= 1000

C12_Witness ==
    /\ Returned(DHT22_OK)
    /\ temperature = 800
    /\ humidity = 1000
    /\ wire[3] = 3

\* the code the stages of a finished read call for, taken in their order:
\* initialization, edge waits, checksum, range
ExpectedCode ==
    IF ~entry.state.initialized THEN DHT22_ERROR_NOT_INITIALIZED
    ELSE IF timeouts > 0 THEN DHT22_ERROR_TIMEOUT
    ELSE IF ~SumMatches THEN DHT22_ERROR_CHECKSUM
    ELSE IF RawHumidity > 1000 \/ RawTemperature < -400
              \/ RawTemperature > 800
      THEN DHT22_ERROR_INVALID_DATA
    ELSE DHT22_OK

\* C13: a read that has returned gave one of the five codes, namely that of
\* the first failing stage in the order initialization check, edge waits,
\* checksum, range validation, and DHT22_OK only when every stage passed
\* with all 40 bits captured.
C13_FirstFailingStage ==
    pc = "done" =>
        /\ result \in {DHT22_OK, DHT22_ERROR_CHECKSUM, DHT22_ERROR_TIMEOUT,
                       DHT22_ERROR_INVALID_DATA,
                       DHT22_ERROR_NOT_INITIALIZED}
        /\ result = ExpectedCode
        /\ result \in {DHT22_OK, DHT22_ERROR_CHECKSUM,
                       DHT22_ERROR_INVALID_DATA} =>
               (bit_i = 40 /\ phase = 3 /\ timeouts = 0)

C13_Witness ==
    /\ Returned(DHT22_ERROR_CHECKSUM)
    /\ RawHumidity > 1000
    /\ bit_i = 40
    /\ reads = 2

\* C14 as stated: wait_for_pin_state returns 0 only with the line sampled at
\* the level no later than timeout_us after entry, and returns -1 whenever
\* the line was not at the level within timeout_us of entry.
C14_SuccessOnlyWithinTimeout ==
    poll.pc = "ret" =>
        /\ poll.ret = 0 => poll.hit_at <= poll.timeout_us
        /\ ~poll.on_time => poll.ret = -1

\* C14: wait_for_pin_state returns 0 only with the line sampled at the
\* level, by the first sample of the call or by a sample that follows a
\* clock reading of at most timeout_us after entry; it returns -1 only after
\* a clock reading of more than timeout_us after entry, and it returns -1
\* whenever the line was never at the level during the call.
C14_SuccessAfterTimelyCheck ==
    poll.pc = "ret" =>
        /\ poll.ret \in {0, -1}
        /\ poll.ret = 0 =>
               /\ poll.level = poll.state
               /\ poll.hit_at = poll.elapsed
               /\ poll.last_check <= poll.timeout_us
        /\ poll.ret = -1 =>
               /\ poll.last_check > poll.timeout_us
               /\ poll.hit_at = -1
        /\ ~poll.seen => poll.ret = -1

C14_Witness ==
    /\ poll.pc = "ret"
    /\ poll.ret = 0
    /\ poll.last_check = poll.timeout_us
    /\ poll.hit_at > poll.timeout_us
    /\ poll.start # Zero32

\* the pacing sleep of the current call, if it made one
PacingEvents ==
    IF sleep_arg = -1 THEN <<>> ELSE << <<"sleep_ms", sleep_arg>> >>

\* the current call passed the pacing gate
PastGate == entry.state.initialized /\ pc \notin {"idle", "gate"}

\* C15: a dht22_read past the pacing gate sets the pin to output, drives it
\* low for the start-low duration, drives it high for 30 us, switches the
\* pin to input, then waits for low, high, low, each wait bounded by 200 us;
\* no sample is taken before the pin is an input, and a failed handshake
\* wait gives DHT22_ERROR_TIMEOUT with no bit read.
C15_LineEventOrder ==
    PastGate =>
        /\ pc = "start" => (events = PacingEvents /\ samples = 0)
        /\ pc # "start" =>
               /\ Len(events) = Len(PacingEvents) + 6 + Min(samples, 3)
               /\ events =
                    PacingEvents \o
                    << <<"gpio_set_dir", 1>>,
                       <<"gpio_put", 0>>,
                       <<"sleep_us", DHT22_START_SIGNAL_DELAY>>,
                       <<"gpio_put", 1>>,
                       <<"sleep_us", 30>>,
                       <<"gpio_set_dir", 0>> >> \o
                    SubSeq(<< <<"wait_for_pin_state", 0, 200>>,
                              <<"wait_for_pin_state", 1, 200>>,
                              <<"wait_for_pin_state", 0, 200>> >>,
                           1, Min(samples, 3))
        /\ (pc = "done" /\ phase < 3) =>
               /\ result = DHT22_ERROR_TIMEOUT
               /\ samples = phase + 1
               /\ bit_i = 0
               /\ data = ZeroFrame
               /\ ~converted
        /\ bit_i > 0 => (phase = 3 /\ samples >= 3)

C15_Witness ==
    /\ PastGate
    /\ pc = "done"
    /\ phase = 2
    /\ sleep_arg > 0
    /\ Len(events) = 10
    /\ result = DHT22_ERROR_TIMEOUT

\* the bit stored by the latest iteration of the bit loop
DecodedBit == WireBit(data, bit_i - 1)

\* C16: a high pulse measured as d microseconds decodes to 1 exactly when
\* d > 50; 28 decodes to 0, 70 to 1 and the boundary 50 to 0.
C16_ThresholdDecode ==
    (pc \in {"data", "stamp"} /\ bit_i > 0) =>
        /\ DecodedBit = 1 <=> pulse_length > 50
        /\ DecodedBit = 0 <=> pulse_length <= 50
        /\ pulse_length = 28 => DecodedBit = 0
        /\ pulse_length = 70 => DecodedBit = 1
        /\ pulse_length = 50 => DecodedBit = 0

C16_Witness ==
    /\ pc = "stamp"
    /\ bit_i = 40
    /\ pulse_length = 50
    /\ DecodedBit = 0

\* C17: bit i of a capture is stored in bit (7 - i mod 8) of frame byte
\* (i div 8); the frame holds the bits decoded so far and no other set bit,
\* whatever an earlier read captured, so that a complete capture is the
\* frame the sensor sent.
C17_MsbFirstFreshFrame ==
    PastGate =>
        /\ \A k \in 1..5 : data[k] \in 0..255
        /\ \A i \in 0..39 :
             Bit(data[(i \div 8) + 1], 7 - (i % 8)) =
                 IF i < bit_i THEN WireBit(wire, i) ELSE 0
        /\ bit_i = 40 => data = wire
        /\ pc \in {"start", "response"} => data = ZeroFrame

C17_Witness ==
    /\ pc = "stamp"
    /\ reads = 2
    /\ entry.prev = DHT22_ERROR_INVALID_DATA
    /\ entry.humidity = 1001
    /\ bit_i = 40
    /\ data = FrameExample

\* C18: when the wait for the rising or the falling edge of a bit times out,
\* the bit loop stops at that bit and dht22_read returns
\* DHT22_ERROR_TIMEOUT: no later edge wait, no stamp, no checksum
\* verification and no conversion happens in that call.
C18_BitTimeoutAborts ==
    (PastGate /\ phase = 3 /\ timeouts > 0) =>
        /\ pc = "done"
        /\ result = DHT22_ERROR_TIMEOUT
        /\ timeouts = 1
        /\ bit_i < 40
        /\ samples \in {3 + 2 * bit_i + 1, 3 + 2 * bit_i + 2}
        /\ \A i \in bit_i..39 : WireBit(data, i) = 0
        /\ ~converted
        /\ dht22_state = entry.state
        /\ SlotsUntouched

C18_Witness ==
    /\ PastGate
    /\ pc = "done"
    /\ phase = 3
    /\ timeouts = 1
    /\ bit_i = 39
    /\ samples = 3 + 2 * 39 + 2
    /\ reads = 2
    /\ result = DHT22_ERROR_TIMEOUT

\* number of occurrences of the call e among the calls of the current read
CountEvents(e) == Cardinality({i \in 1..Len(events) : events[i] = e})

\* C19: a dht22_read sends at most one start signal and performs at most
\* one handshake and one bit capture; a failure ends the call, which neither
\* drives the line again nor retries.
C19_SingleAttempt ==
    /\ CountEvents(<<"gpio_set_dir", 1>>) <= 1
    /\ CountEvents(<<"gpio_put", 0>>) <= 1
    /\ CountEvents(<<"gpio_put", 1>>) <= 1
    /\ CountEvents(<<"gpio_set_dir", 0>>) <= 1
    /\ Len(events) <= 1 + 6 + 3
    /\ phase <= 3
    /\ bit_i <= 40
    /\ samples <= phase + 2 * bit_i + 2
    /\ timeouts <= 1
    /\ (timeouts = 1 \/ (pc # "idle" /\ result # DHT22_OK)) => pc = "done"

C19_Witness ==
    /\ PastGate
    /\ pc = "done"
    /\ result = DHT22_ERROR_TIMEOUT
    /\ phase = 0
    /\ samples = 1
    /\ CountEvents(<<"gpio_put", 0>>) = 1
    /\ Len(events) = 1 + 6 + 1

\* a dht22_read has been entered and has not returned
InCall == pc \in {"gate", "start", "response", "data", "stamp", "verify",
                  "convert"}

\* every wait_for_pin_state returns, whatever the line does, while the
\* microsecond clock advances
WaitEnds == (poll.pc \in {"sample", "check"}) ~> (poll.pc = "ret")

\* C20: every dht22_read that is entered returns a result, whatever the
\* line does, after at most one pacing sleep, three handshake waits and
\* eighty bit-edge waits.
C20_ReadTerminates ==
    /\ [](/\ CountEvents(<<"sleep_ms", sleep_arg>>) = Len(PacingEvents)
          /\ Len(PacingEvents) <= 1
          /\ CountEvents(<<"wait_for_pin_state", 0, 200>>)
               + CountEvents(<<"wait_for_pin_state", 1, 200>>) <= 3
          /\ samples <= 3 + 80
          /\ pc = "done" => result \in {DHT22_OK, DHT22_ERROR_CHECKSUM,
                                        DHT22_ERROR_TIMEOUT,
                                        DHT22_ERROR_INVALID_DATA,
                                        DHT22_ERROR_NOT_INITIALIZED})
    /\ InCall ~> (pc = "done")

C20_Witness ==
    /\ pc = "done"
    /\ Returned(DHT22_OK)
    /\ samples = 3 + 80
    /\ Len(PacingEvents) = 1
    /\ Len(events) = 1 + 6 + 3

\* C21: once a read has captured a frame the stored timestamp differs from
\* 0, the value that stands for "never read", also when the millisecond
\* counter has wrapped; the read that follows a capture of less than 2000 ms
\* ago therefore sleeps.
C21_StampNeverZero ==
    /\ (pc \in {"verify", "convert"} \/ Captured) =>
           dht22_state.last_read_time_ms # Zero32
    /\ (PastGate /\ entry.age # -1
          /\ entry.age < DHT22_MIN_INTERVAL_MS) =>
           sleep_arg # -1

\* C22: whenever the pacing gate sleeps, the duration passed to sleep_ms is
\* 2000 minus the 32-bit difference of the two timestamps and lies in
\* 1..2000: the subtraction does not underflow, also for timestamps on
\* either side of a wrap of the counter.
C22_SleepWithinInterval ==
    (pc = "start" /\ sleep_arg # -1) =>
        /\ sleep_arg >= 1
        /\ sleep_arg <= 2000
        /\ Lt32(Sub32(current_time, dht22_state.last_read_time_ms),
                U32(2000))
        /\ SleepFor(current_time, dht22_state.last_read_time_ms)
             = U32(sleep_arg)
        /\ sleep_arg + Val32(Sub32(current_time,
                                   dht22_state.last_read_time_ms)) = 2000
        /\ events = << <<"sleep_ms", sleep_arg>> >>

C22_Witness ==
    /\ pc = "start"
    /\ sleep_arg = 1
    /\ current_time = U32(999)
    /\ dht22_state.last_read_time_ms = Sub32(Zero32, U32(1000))

\* the summary of a call agrees with the steps of dht22_read: the code, the
\* slots and the stamp of every read that has returned
ReadMatchesSteps ==
    pc = "done" =>
        /\ result = ReadCode(entry.state, timeouts > 0, data)
        /\ temperature = IF ReadWrites(result) THEN ConvertTemperature(data)
                         ELSE entry.temperature
        /\ humidity = IF ReadWrites(result) THEN ConvertHumidity(data)
                      ELSE entry.humidity
        /\ dht22_state = IF ReadStamps(result)
                           THEN [entry.state EXCEPT
                                   !.last_read_time_ms = clock_ms]
                           ELSE entry.state

\* C23: after a temperature_monitoring whose read returned DHT22_OK,
\* servo_triggered equals (temperature > 30.0) and the servo was sent 180
\* exactly when the flag became true, 0 exactly when it became false, and
\* nothing when the flag kept its value; after a read that failed the flag is
\* as before and the servo was sent nothing.
C23_ServoFollowsOkReads ==
    reads > 0 =>
        /\ temperature_result = DHT22_OK =>
               /\ servo_triggered = (temperature > 300)
               /\ servo_cmd = 180 <=> (servo_triggered /\ ~servo_before)
               /\ servo_cmd = 0 <=> (~servo_triggered /\ servo_before)
               /\ servo_cmd = -1 <=> (servo_triggered = servo_before)
        /\ temperature_result # DHT22_OK =>
               /\ servo_triggered = servo_before
               /\ servo_cmd = -1

C23_Witness ==
    /\ reads = 2
    /\ temperature_result = DHT22_OK
    /\ temperature = 300
    /\ servo_before
    /\ ~servo_triggered
    /\ servo_cmd = 0

\* C24: an iteration of the loop of the second main program sends the servo
\* 180 only if its dht22_read returned DHT22_OK with a temperature above
\* 30.0, and sends it 0 whenever its read failed.
C24_ServoHighOnlyOnOk ==
    reads > 0 =>
        /\ servo_cmd = 180 =>
               (temperature_result = DHT22_OK /\ temperature > 300)
        /\ temperature_result # DHT22_OK => servo_cmd = 0

====
